---- MODULE Spec2Model ----
(***************************************************************************)
(* State machine of the FDegen front-end: the App component (src/App.tsx)   *)
(* and the GeneratedForm component it mounts.  The state is the value of    *)
(* the wallet hooks, the React state cells of both components, the memo     *)
(* cells of GeneratedForm, the element tree of the last render, and the     *)
(* calls made to the wallet library.  Every event handler is one action     *)
(* and ends with the re-render React performs after it.                     *)
(***************************************************************************)
EXTENDS Integers, Sequences, FiniteSets, TLC

(* ------------------------------------------------------------------ *)
(* Bounds                                                               *)
(* ------------------------------------------------------------------ *)
\* number of widget toggles followed by the toggle counter
MaxToggles == 4
\* number of clicks on the "Switch to Base Sepolia" button that are followed
MaxSwitchClicks == 2

(* ------------------------------------------------------------------ *)
(* Values                                                               *)
(* ------------------------------------------------------------------ *)
BASE_SEPOLIA_CHAIN_ID == 84532

CONTRACT_ADDRESS == "0xA18A39F7f5Fa1A6d4aD6B67f6d5578D4002E2f98"

\* null / undefined of the host language, for values modelled as strings
Null == "null"
Undefined == "undefined"

\* An optional number is a sequence of length at most one: << >> is
\* undefined, <<n>> is the number n.
None == << >>
Some(x) == <<x>>

\* The chain ids useDerivedAccountStatus reports (chainId?: number): not
\* reported, Base Sepolia, Ethereum mainnet, Base mainnet.
ChainIdValues == {None, Some(BASE_SEPOLIA_CHAIN_ID), Some(1), Some(8453)}

\* The adapters useWalletState can report as activeAdapter.  The last one
\* carries no networkConfig, the case GeneratedForm guards against.
AdapterValues == {"adapterA", "adapterB", "adapterNoNetwork"}

\* adapter.networkConfig
networkConfig(adapter) ==
  IF adapter = "adapterNoNetwork" THEN Null ELSE "networkOf_" \o adapter

\* the values of switchChain returned by useDerivedSwitchChainStatus
SwitchChainValues == {Undefined, "switchChainFn"}

\* JavaScript truthiness of a string-or-null value
Truthy(v) == v # Null /\ v # Undefined /\ v # ""

(* ------------------------------------------------------------------ *)
(* Static schema data of GeneratedForm                                  *)
(* ------------------------------------------------------------------ *)
approveFormContent ==
  [ functionId |-> "approve_address_uint256",
    id |-> "form-approve_address_uint256",
    title |-> "Approve Form",
    contractAddress |-> CONTRACT_ADDRESS,
    fields |-> <<"spender", "value">>,
    submitText |-> "Execute Approve Form" ]

mintFormContent ==
  [ functionId |-> "mint_",
    id |-> "form-mint",
    title |-> "Mint",
    contractAddress |-> CONTRACT_ADDRESS,
    fields |-> << >>,
    submitText |-> "Execute Mint" ]

mintAndSendFormContent ==
  [ functionId |-> "mintAndSend_address",
    id |-> "form-mintAndSend",
    title |-> "Mint And Send",
    contractAddress |-> CONTRACT_ADDRESS,
    fields |-> <<"to">>,
    submitText |-> "Execute Mint And Send" ]

sendFormContent ==
  [ functionId |-> "transfer_address_uint256",
    id |-> "form-send",
    title |-> "Send",
    contractAddress |-> CONTRACT_ADDRESS,
    fields |-> <<"to", "value">>,
    submitText |-> "Execute Send" ]

Fn(id, name, modifiesState) ==
  [id |-> id, name |-> name, modifiesState |-> modifiesState]

\* contractSchema.functions with one entry removed (the mint function)
contractFunctionsMissingMint ==
  << Fn("DOMAIN_SEPARATOR_", "DOMAIN_SEPARATOR", FALSE),
     Fn("allowance_address_address", "allowance", FALSE),
     Fn("approve_address_uint256", "approve", TRUE),
     Fn("balanceOf_address", "balanceOf", FALSE),
     Fn("decimals_", "decimals", FALSE),
     Fn("eip712Domain_", "eip712Domain", FALSE),
     Fn("mintAndSend_address", "mintAndSend", TRUE),
     Fn("name_", "name", FALSE),
     Fn("nonces_address", "nonces", FALSE),
     Fn("permit_address_address_uint256_uint256_uint8_bytes32_bytes32", "permit", TRUE),
     Fn("symbol_", "symbol", FALSE),
     Fn("totalSupply_", "totalSupply", FALSE),
     Fn("transfer_address_uint256", "transfer", TRUE),
     Fn("transferFrom_address_address_uint256", "transferFrom", TRUE) >>

contractFunctions ==
  << Fn("DOMAIN_SEPARATOR_", "DOMAIN_SEPARATOR", FALSE),
     Fn("allowance_address_address", "allowance", FALSE),
     Fn("approve_address_uint256", "approve", TRUE),
     Fn("balanceOf_address", "balanceOf", FALSE),
     Fn("decimals_", "decimals", FALSE),
     Fn("eip712Domain_", "eip712Domain", FALSE),
     Fn("mint_", "mint", TRUE),
     Fn("mintAndSend_address", "mintAndSend", TRUE),
     Fn("name_", "name", FALSE),
     Fn("nonces_address", "nonces", FALSE),
     Fn("permit_address_address_uint256_uint256_uint8_bytes32_bytes32", "permit", TRUE),
     Fn("symbol_", "symbol", FALSE),
     Fn("totalSupply_", "totalSupply", FALSE),
     Fn("transfer_address_uint256", "transfer", TRUE),
     Fn("transferFrom_address_address_uint256", "transferFrom", TRUE) >>

contractSchemaContent ==
  [ ecosystem |-> "evm",
    name |-> "ContractFromABI",
    address |-> CONTRACT_ADDRESS,
    functions |-> contractFunctions ]

\* An object of the heap: its identity (ref) and its content.
Obj(ref, content) == [ref |-> ref, content |-> content]

(* ------------------------------------------------------------------ *)
(* State                                                                *)
(* ------------------------------------------------------------------ *)
VARIABLES
  activeAdapter,      \* useWalletState().activeAdapter (Null or an adapter)
  isConnected,        \* useDerivedAccountStatus().isConnected
  chainId,            \* useDerivedAccountStatus().chainId (optional number)
  switchChain,        \* useDerivedSwitchChainStatus().switchChain
  isSwitching,        \* useDerivedSwitchChainStatus().isSwitching
  adapterForForm,     \* App's state cell (Null or an adapter)
  effectPending,      \* App's effect on [activeAdapter] is scheduled
  gf,                 \* the GeneratedForm instance: mounted, its state and memo cells
  nextRef,            \* identity given to the next object a memo factory builds
  view,               \* the element tree of the last render
  switchCalls,        \* the chain ids passed to switchChain so far
  switchClicks,       \* calls of requestSwitchToBaseSepolia so far
  uncaughtError,      \* an exception escaped an event handler
  toggles             \* calls of toggleWidget on the mounted GeneratedForm

vars == << activeAdapter, isConnected, chainId, switchChain, isSwitching,
           adapterForForm, effectPending, gf, nextRef, view,
           switchCalls, switchClicks, uncaughtError, toggles >>

(* ------------------------------------------------------------------ *)
(* App: derived values                                                  *)
(* ------------------------------------------------------------------ *)
\* isCorrectChain without the "chainId === undefined" disjunct
isCorrectChainStrict(cid) == cid = Some(BASE_SEPOLIA_CHAIN_ID)

\* const isCorrectChain = chainId === undefined || chainId === BASE_SEPOLIA_CHAIN_ID
isCorrectChain(cid) == cid = None \/ cid = Some(BASE_SEPOLIA_CHAIN_ID)

\* the setState updater of App's effect, keeping the latest adapter
cacheAdapterLatest(prev, adapter) == adapter

\* (prev) => prev ?? activeAdapter
cacheAdapter(prev, adapter) == IF prev # Null THEN prev ELSE adapter

\* the effect written as setAdapterForForm(activeAdapter), without the guard
adapterEffectFollow(prev, adapter) == adapter

\* the body of App's effect:
\*   if (activeAdapter) { setAdapterForForm((prev) => prev ?? activeAdapter) }
adapterEffect(prev, adapter) ==
  IF Truthy(adapter) THEN cacheAdapter(prev, adapter) ELSE prev

\* the props App hands to GeneratedForm
GeneratedFormProps(aff, conn, cid, sw) ==
  [ adapter |-> aff,
    isWalletConnected |-> conn,
    isCorrectChain |-> isCorrectChain(cid),
    onSwitchToBaseSepolia |-> "requestSwitchToBaseSepolia",
    isSwitchingChain |-> sw ]

(* ------------------------------------------------------------------ *)
(* GeneratedForm: state cells, memo cells and render                    *)
(* ------------------------------------------------------------------ *)
\* useMemo that runs its factory on every render
useMemoNoCache(cell, ref, content) == <<Obj(ref, content)>>

\* useMemo(factory, []): the factory runs when the cell is empty (the mount);
\* the dependency list is empty, so a filled cell is returned as it is.
useMemo(cell, ref, content) ==
  IF cell # << >> THEN cell ELSE <<Obj(ref, content)>>

EmptyMemo ==
  [ approveFormSchema |-> << >>, mintFormSchema |-> << >>,
    mintAndSendFormSchema |-> << >>, sendFormSchema |-> << >>,
    contractSchema |-> << >> ]

\* The five useMemo calls of one render, in source order; r0 is the identity
\* the first freshly built object would get.
RenderMemo(memo, r0) ==
  [ approveFormSchema |-> useMemo(memo.approveFormSchema, r0, approveFormContent),
    mintFormSchema |-> useMemo(memo.mintFormSchema, r0 + 1, mintFormContent),
    mintAndSendFormSchema |->
      useMemo(memo.mintAndSendFormSchema, r0 + 2, mintAndSendFormContent),
    sendFormSchema |-> useMemo(memo.sendFormSchema, r0 + 3, sendFormContent),
    contractSchema |-> useMemo(memo.contractSchema, r0 + 4, contractSchemaContent) ]

\* the instance before it is mounted; useState(false), useState(null)
UnmountedForm ==
  [ mounted |-> FALSE, isWidgetVisible |-> FALSE, loadError |-> Null,
    memo |-> EmptyMemo ]

\* const showWrongNetwork = isWalletConnected && !isCorrectChain
showWrongNetwork(props) == props.isWalletConnected /\ ~props.isCorrectChain

\* const contractAddress = CONTRACT_ADDRESS
contractAddress == CONTRACT_ADDRESS

\* {adapter.networkConfig && <ContractActionBar ... />}
ActionBarElement(props, state) ==
  IF Truthy(networkConfig(props.adapter))
    THEN << [ networkConfig |-> networkConfig(props.adapter),
              contractAddress |-> contractAddress,
              onToggleContractState |-> "toggleWidget",
              isWidgetExpanded |-> state.isWidgetVisible ] >>
    ELSE << >>

\* {showWrongNetwork && <Alert> ... {onSwitchToBaseSepolia && <Button/>} </Alert>}
BannerElement(props) ==
  IF showWrongNetwork(props)
    THEN << [ title |-> "Wrong network",
              button |->
                IF Truthy(props.onSwitchToBaseSepolia)
                  THEN << [ onClick |-> props.onSwitchToBaseSepolia,
                            disabled |-> props.isSwitchingChain ] >>
                  ELSE << >> ] >>
    ELSE << >>

\* the state widget gated on the network like the forms
WidgetMountedOnCorrectNetwork(props) ==
  Truthy(contractAddress) /\ ~showWrongNetwork(props)

\* {contractAddress && <div> ... <ContractStateWidget/> ... </div>}
WidgetMounted(props) == Truthy(contractAddress)

WidgetElement(props, state, memo) ==
  IF WidgetMounted(props)
    THEN << [ contractSchema |-> memo.contractSchema[1],
              contractAddress |-> contractAddress,
              adapter |-> props.adapter,
              isVisible |-> state.isWidgetVisible,
              onToggle |-> "toggleWidget",
              error |-> state.loadError ] >>
    ELSE << >>

\* <TransactionForm schema contractSchema adapter isWalletConnected />
TransactionForm(schema, props, memo) ==
  [ schema |-> schema,
    contractSchema |-> memo.contractSchema[1],
    adapter |-> props.adapter,
    isWalletConnected |-> props.isWalletConnected ]

\* the forms gated on the chain alone, not on the connection
FormsMountedIgnoringConnection(props) == props.isCorrectChain

\* {!showWrongNetwork && ( <> four cards </> )}
FormsMounted(props) == ~showWrongNetwork(props)

FormElements(props, memo) ==
  IF FormsMounted(props)
    THEN << TransactionForm(memo.approveFormSchema[1], props, memo),
            TransactionForm(memo.mintFormSchema[1], props, memo),
            TransactionForm(memo.mintAndSendFormSchema[1], props, memo),
            TransactionForm(memo.sendFormSchema[1], props, memo) >>
    ELSE << >>

\* the load effect enabled: adapter.loadContract(contractAddress) rejects for
\* an adapter without a network and the catch stores the error
loadErrorWithLoadEffect(prev, adapter) ==
  IF Truthy(networkConfig(adapter)) THEN Null ELSE "Error: Failed to load contract state"

\* The value of the loadError cell after a render.  The only code that calls
\* its setter is the load effect, which is commented out, and the setter is
\* bound to the unused name _setLoadError: the cell keeps its value.
loadErrorAfterRender(prev, adapter) == prev

\* One render of GeneratedForm: the instance after it (mounted, memo cells
\* filled) and the elements it returns.
GeneratedForm(props, inst, r0) ==
  LET state == IF inst.mounted THEN inst ELSE UnmountedForm
      memo  == RenderMemo(state.memo, r0)
  IN  [ inst |-> [ mounted |-> TRUE,
                   isWidgetVisible |-> state.isWidgetVisible,
                   loadError |-> loadErrorAfterRender(state.loadError, props.adapter),
                   memo |-> memo ],
        built |-> Cardinality({ k \in DOMAIN memo : memo[k][1].ref >= r0 }),
        actionBar |-> ActionBarElement(props, state),
        banner |-> BannerElement(props),
        widget |-> WidgetElement(props, state, memo),
        forms |-> FormElements(props, memo) ]

(* ------------------------------------------------------------------ *)
(* App: render                                                          *)
(* ------------------------------------------------------------------ *)
\* {adapterForForm ? <GeneratedForm ... /> : <div>Loading adapter...</div>}
\* Returns the GeneratedForm instance, the next free identity and the tree.
App(aff, conn, cid, sw, inst, r0) ==
  IF Truthy(aff)
    THEN LET props == GeneratedFormProps(aff, conn, cid, sw)
             r == GeneratedForm(props, inst, r0)
         IN  [ gf |-> r.inst,
               nextRef |-> r0 + r.built,
               view |-> [ page |-> "form",
                          props |-> <<props>>,
                          actionBar |-> r.actionBar,
                          banner |-> r.banner,
                          widget |-> r.widget,
                          forms |-> r.forms ] ]
    ELSE [ gf |-> UnmountedForm,
           nextRef |-> r0,
           view |-> [ page |-> "loading",
                      props |-> << >>,
                      actionBar |-> << >>,
                      banner |-> << >>,
                      widget |-> << >>,
                      forms |-> << >> ] ]

\* the re-render that ends every step
Rerender(aff, conn, cid, sw, inst) ==
  LET r == App(aff, conn, cid, sw, inst, nextRef)
  IN  /\ gf' = r.gf
      /\ nextRef' = r.nextRef
      /\ view' = r.view

(* ------------------------------------------------------------------ *)
(* Event handlers                                                       *)
(* ------------------------------------------------------------------ *)
\* toggleWidget that always opens the widget
toggleWidgetOpenOnly(prev) == TRUE

\* setIsWidgetVisible((prev) => !prev)
toggleWidget(prev) == ~prev

\* requestSwitchToBaseSepolia calling switchChain without the optional call
requestSwitchUnguarded(sc) ==
  IF sc # Undefined
    THEN [ calls |-> << [chainId |-> BASE_SEPOLIA_CHAIN_ID] >>, threw |-> FALSE ]
    ELSE [ calls |-> << >>, threw |-> TRUE ]

\* switchChain?.({ chainId: BASE_SEPOLIA_CHAIN_ID }): the calls made to the
\* wallet library and whether the handler threw
requestSwitchToBaseSepolia(sc) ==
  IF sc # Undefined
    THEN [ calls |-> << [chainId |-> BASE_SEPOLIA_CHAIN_ID] >>, threw |-> FALSE ]
    ELSE [ calls |-> << >>, threw |-> FALSE ]

(* ------------------------------------------------------------------ *)
(* Initial state: App has rendered once, its effect has not run yet     *)
(* ------------------------------------------------------------------ *)
Init ==
  /\ activeAdapter \in {Null} \cup AdapterValues
  /\ isConnected \in BOOLEAN
  /\ chainId \in ChainIdValues
  /\ switchChain \in SwitchChainValues
  /\ isSwitching \in BOOLEAN
  /\ adapterForForm = Null
  /\ effectPending = TRUE
  /\ gf = UnmountedForm
  /\ nextRef = 1
  /\ view = App(Null, isConnected, chainId, isSwitching, UnmountedForm, 1).view
  /\ switchCalls = << >>
  /\ switchClicks = 0
  /\ uncaughtError = FALSE
  /\ toggles = 0

(* ------------------------------------------------------------------ *)
(* Actions                                                              *)
(* ------------------------------------------------------------------ *)
\* useWalletState reports another activeAdapter: App re-renders and its
\* effect, which depends on [activeAdapter], is scheduled.
WalletStateChange ==
  /\ ~effectPending
  /\ \E a \in ({Null} \cup AdapterValues) \ {activeAdapter} :
       /\ activeAdapter' = a
       /\ effectPending' = TRUE
       /\ Rerender(adapterForForm, isConnected, chainId, isSwitching, gf)
  /\ UNCHANGED << isConnected, chainId, switchChain, isSwitching, adapterForForm,
                  switchCalls, switchClicks, uncaughtError, toggles >>

\* useDerivedAccountStatus reports another connection status or chain id
AccountStatusChange ==
  /\ ~effectPending
  /\ \E c \in BOOLEAN, cid \in ChainIdValues :
       /\ <<c, cid>> # <<isConnected, chainId>>
       /\ isConnected' = c
       /\ chainId' = cid
       /\ Rerender(adapterForForm, c, cid, isSwitching, gf)
  /\ UNCHANGED << activeAdapter, switchChain, isSwitching, adapterForForm,
                  effectPending, switchCalls, switchClicks, uncaughtError, toggles >>

\* useDerivedSwitchChainStatus reports another capability or switching flag
SwitchChainStatusChange ==
  /\ ~effectPending
  /\ \E sc \in SwitchChainValues, sw \in BOOLEAN :
       /\ <<sc, sw>> # <<switchChain, isSwitching>>
       /\ switchChain' = sc
       /\ isSwitching' = sw
       /\ Rerender(adapterForForm, isConnected, chainId, sw, gf)
  /\ UNCHANGED << activeAdapter, isConnected, chainId, adapterForForm,
                  effectPending, switchCalls, switchClicks, uncaughtError, toggles >>

\* useEffect(() => { if (activeAdapter) setAdapterForForm(prev => prev ?? activeAdapter) })
RunEffect ==
  /\ effectPending
  /\ effectPending' = FALSE
  /\ adapterForForm' = adapterEffect(adapterForForm, activeAdapter)
  /\ Rerender(adapterForForm', isConnected, chainId, isSwitching, gf)
  /\ UNCHANGED << activeAdapter, isConnected, chainId, switchChain, isSwitching,
                  switchCalls, switchClicks, uncaughtError, toggles >>

\* a call of toggleWidget and the re-render after it
Toggle ==
  /\ gf.mounted
  /\ toggles < MaxToggles
  /\ toggles' = toggles + 1
  /\ Rerender(adapterForForm, isConnected, chainId, isSwitching,
              [gf EXCEPT !.isWidgetVisible = toggleWidget(@)])
  /\ UNCHANGED << activeAdapter, isConnected, chainId, switchChain, isSwitching,
                  adapterForForm, effectPending, switchCalls, switchClicks,
                  uncaughtError >>

\* ContractActionBar calls onToggleContractState
ToggleFromActionBar ==
  /\ ~effectPending
  /\ view.actionBar # << >>
  /\ Toggle

\* ContractStateWidget calls onToggle
ToggleFromWidget ==
  /\ ~effectPending
  /\ view.widget # << >>
  /\ Toggle

\* a click on the enabled "Switch to Base Sepolia" button of the banner
ClickSwitchToBaseSepolia ==
  /\ ~effectPending
  /\ view.banner # << >>
  /\ view.banner[1].button # << >>
  /\ ~view.banner[1].button[1].disabled
  /\ switchClicks < MaxSwitchClicks
  /\ LET r == requestSwitchToBaseSepolia(switchChain)
     IN  /\ switchCalls' = switchCalls \o r.calls
         /\ uncaughtError' = (uncaughtError \/ r.threw)
  /\ switchClicks' = switchClicks + 1
  /\ UNCHANGED << activeAdapter, isConnected, chainId, switchChain, isSwitching,
                  adapterForForm, effectPending, gf, nextRef, view, toggles >>

Next ==
  \/ WalletStateChange
  \/ AccountStatusChange
  \/ SwitchChainStatusChange
  \/ RunEffect
  \/ ToggleFromActionBar
  \/ ToggleFromWidget
  \/ ClickSwitchToBaseSepolia

Spec == Init /\ [][Next]_vars

(* ------------------------------------------------------------------ *)
(* Shorthands used by the properties                                    *)
(* ------------------------------------------------------------------ *)
FormPage == view.page = "form"
BannerRendered == view.banner # << >>
OnBaseSepolia == chainId = Some(BASE_SEPOLIA_CHAIN_ID)
hooks == << activeAdapter, isConnected, chainId, switchChain, isSwitching >>
FormFunctionIds == [ i \in DOMAIN view.forms |-> view.forms[i].schema.content.functionId ]

AllFourForms ==
  FormFunctionIds = << "approve_address_uint256", "mint_", "mintAndSend_address",
                       "transfer_address_uint256" >>

MemoContents ==
  [ approveFormSchema |-> approveFormContent,
    mintFormSchema |-> mintFormContent,
    mintAndSendFormSchema |-> mintAndSendFormContent,
    sendFormSchema |-> sendFormContent,
    contractSchema |-> contractSchemaContent ]

\* C3: the five schema objects are built once, at the mount (five distinct
\* identities, the source's content), and every later render of the mounted
\* instance returns the same five objects, identity and content.
C3_SchemasStable ==
  /\ [](gf.mounted =>
          /\ \A k \in DOMAIN gf.memo :
               Len(gf.memo[k]) = 1 /\ gf.memo[k][1].content = MemoContents[k]
          /\ \A k, l \in DOMAIN gf.memo :
               k # l => gf.memo[k][1].ref # gf.memo[l][1].ref
          /\ nextRef = 6)
  /\ [][gf.mounted /\ gf'.mounted => gf'.memo = gf.memo]_vars

C3_Witness ==
  /\ gf.mounted /\ toggles >= 2 /\ BannerRendered /\ isSwitching
  /\ adapterForForm # activeAdapter

(* ------------------------------------------------------------------ *)
(* C4                                                                   *)
(* ------------------------------------------------------------------ *)
\* C4: adapterForForm starts as null, becomes the first non-null
\* activeAdapter as soon as App's effect has run, and never changes after
\* that; the adapter prop of the mounted GeneratedForm is that value.
C4_AdapterWriteOnce ==
  /\ adapterForForm = Null
  /\ [][adapterForForm # Null => adapterForForm' = adapterForForm]_vars
  /\ [][adapterForForm = Null /\ adapterForForm' # Null
          => adapterForForm' = activeAdapter /\ activeAdapter' = activeAdapter]_vars
  /\ [](~effectPending /\ activeAdapter # Null => adapterForForm # Null)
  /\ [](FormPage => view.props[1].adapter = adapterForForm)
  /\ [][FormPage /\ view'.page = "form"
          => view'.props[1].adapter = view.props[1].adapter]_vars

C4_Witness ==
  /\ adapterForForm = "adapterA" /\ activeAdapter = "adapterB" /\ ~effectPending
  /\ FormPage /\ view.props[1].adapter = "adapterA"

(* ------------------------------------------------------------------ *)
(* C5                                                                   *)
(* ------------------------------------------------------------------ *)
\* C5: the isCorrectChain prop handed to GeneratedForm is true whenever the
\* wallet is on chain 84532 or the wallet is not connected.
C5_CorrectChainWhenOnTargetOrDisconnected ==
  FormPage => ((OnBaseSepolia \/ ~isConnected) => view.props[1].isCorrectChain)

(* ------------------------------------------------------------------ *)
(* C6                                                                   *)
(* ------------------------------------------------------------------ *)
\* the functions of a contract descriptor whose id is the given one
FunctionsWithId(contract, id) ==
  { i \in DOMAIN contract.content.functions : contract.content.functions[i].id = id }

\* C6: the function id of every mounted TransactionForm's schema is the id
\* of exactly one function of the contract descriptor passed to that same
\* TransactionForm, and the mounted forms reference the four ids approve_address_uint256,
\* mint_, mintAndSend_address and transfer_address_uint256.
C6_FunctionIdsResolve ==
  /\ \A i \in DOMAIN view.forms :
       Cardinality(FunctionsWithId(view.forms[i].contractSchema,
                                   view.forms[i].schema.content.functionId)) = 1
  /\ view.forms # << >> => AllFourForms

C6_Witness ==
  /\ Len(view.forms) = 4
  /\ view.forms[2].schema.content.functionId = "mint_"
  /\ Len(view.forms[2].contractSchema.content.functions) = 15

(* ------------------------------------------------------------------ *)
(* C7                                                                   *)
(* ------------------------------------------------------------------ *)
\* C7: the contract state widget is mounted whenever GeneratedForm is, also
\* under the wrong-network banner, and between two renders of the mounted
\* form no prop of the widget other than isVisible changes.
C7_WidgetAlwaysMounted ==
  /\ [](FormPage => Len(view.widget) = 1)
  /\ [][FormPage /\ view'.page = "form"
          => view'.widget = << [view.widget[1] EXCEPT
                                  !.isVisible = view'.widget[1].isVisible] >>]_vars

C7_Witness ==
  /\ FormPage /\ BannerRendered /\ view.forms = << >>
  /\ Len(view.widget) = 1 /\ view.widget[1].isVisible /\ toggles >= 1

(* ------------------------------------------------------------------ *)
(* C8                                                                   *)
(* ------------------------------------------------------------------ *)
\* C8: the visibility flag is false at the mount and true exactly after an
\* odd number of toggles; a toggle negates it and changes nothing else of
\* the program's state; a step that is no toggle leaves it unchanged; the
\* action bar's isWidgetExpanded and the widget's isVisible both carry it.
C8_ToggleParity ==
  /\ [](gf.isWidgetVisible <=> (toggles % 2 = 1))
  /\ [](FormPage =>
          /\ view.widget[1].isVisible = gf.isWidgetVisible
          /\ \A i \in DOMAIN view.actionBar :
               view.actionBar[i].isWidgetExpanded = view.widget[1].isVisible)
  /\ [][toggles' # toggles =>
          /\ gf' = [gf EXCEPT !.isWidgetVisible = ~gf.isWidgetVisible]
          /\ UNCHANGED << hooks, adapterForForm, effectPending, nextRef,
                          switchCalls, switchClicks, uncaughtError >>]_vars
  /\ [][toggles' = toggles => gf'.isWidgetVisible = gf.isWidgetVisible]_vars

C8_Witness ==
  /\ FormPage /\ toggles = 3 /\ gf.isWidgetVisible
  /\ view.actionBar # << >> /\ view.actionBar[1].isWidgetExpanded
  /\ BannerRendered

(* ------------------------------------------------------------------ *)
(* C9                                                                   *)
(* ------------------------------------------------------------------ *)
\* C9: App shows the loading placeholder exactly while adapterForForm is
\* null and GeneratedForm exactly once it is not; once GeneratedForm is shown
\* no step returns to the placeholder or unmounts GeneratedForm.
C9_LoadingThenFormForever ==
  /\ [](view.page = "loading" <=> adapterForForm = Null)
  /\ [](FormPage <=> adapterForForm # Null)
  /\ [](FormPage <=> gf.mounted)
  /\ [][FormPage => view'.page = "form" /\ gf'.mounted]_vars

C9_Witness ==
  FormPage /\ gf.mounted /\ activeAdapter = Null /\ ~isConnected /\ ~effectPending

(* ------------------------------------------------------------------ *)
(* C10                                                                  *)
(* ------------------------------------------------------------------ *)
\* C10: every call made to switchChain asks for chain id 84532; a click made
\* while switchChain is undefined makes no call and raises no error; a click
\* changes neither the cached adapter nor the GeneratedForm instance (widget
\* visibility, error value, memo cells) nor the rendered tree.
C10_SwitchRequestsBaseSepoliaOnly ==
  /\ [](\A i \in DOMAIN switchCalls : switchCalls[i] = [chainId |-> 84532])
  /\ [](~uncaughtError)
  /\ [][switchClicks' # switchClicks =>
          /\ switchCalls' =
               IF switchChain = Undefined
                 THEN switchCalls
                 ELSE Append(switchCalls, [chainId |-> 84532])
          /\ UNCHANGED << hooks, adapterForForm, effectPending, gf, nextRef,
                          view, toggles >>]_vars

C10_Witness ==
  /\ Len(switchCalls) = 1 /\ switchClicks = 2
  /\ ~uncaughtError /\ gf.isWidgetVisible

(* ------------------------------------------------------------------ *)
(* C11                                                                  *)
(* ------------------------------------------------------------------ *)
\* C11: the error value held by GeneratedForm is null in every reachable
\* state, no step changes it, and the error prop of every rendered contract
\* state widget is null.
C11_LoadErrorAlwaysNull ==
  /\ [](gf.loadError = "null")
  /\ [](\A i \in DOMAIN view.widget : view.widget[i].error = "null")
  /\ [][gf'.loadError = gf.loadError]_vars

C11_Witness ==
  /\ FormPage /\ Len(view.widget) = 1 /\ view.widget[1].error = "null"
  /\ view.widget[1].adapter = "adapterNoNetwork" /\ activeAdapter = "adapterA"
  /\ toggles >= 1 /\ Len(switchCalls) >= 1 /\ ~effectPending

====
